---- MODULE Spec2Model ----
(***************************************************************************)
(* knittingpattern: the pattern parser (Parser.py) with its deferred       *)
(* inheritance / instruction queues and its mesh-connection resolver, and  *)
(* the grid layout that is computed from the resolved pattern graph.       *)
(*                                                                         *)
(* Python dictionaries with optional keys are modelled as "option sets":   *)
(* {} when the key is absent, {v} when it is present with value v.         *)
(***************************************************************************)
EXTENDS Integers, Sequences, FiniteSets, TLC

(***************************************************************************)
(* Bounds of the model.                                                    *)
(***************************************************************************)
MaxPatterns == 2     \* patterns of one pattern set
MaxRows == 2         \* rows parsed during one call
MaxConnections == 2  \* connection descriptors of one pattern
NumIds == 2          \* distinct row ids the input may use
MaxStart == 1        \* largest explicit "start" of a connection end
MaxMeshes == 2       \* largest explicit "meshes" of a connection

(***************************************************************************)
(* Program constants.                                                      *)
(***************************************************************************)
DEFAULT_START == 0
KNITTING_PATTERN_TYPE == "knitting pattern"

Ids == 1..NumIds
NoMesh == <<0, "none", 0>>

(***************************************************************************)
(* The instruction library: every instruction type declares how many       *)
(* meshes it consumes and produces.                                        *)
(***************************************************************************)
InstructionTypes == {"knit", "k2tog", "yo", "bo"}

ConsumedOf(type) ==
    CASE type = "knit" -> 1
      [] type = "k2tog" -> 2
      [] type = "yo" -> 0
      [] type = "bo" -> 1

ProducedOf(type) ==
    CASE type = "knit" -> 1
      [] type = "k2tog" -> 1
      [] type = "yo" -> 1
      [] type = "bo" -> 0

\* The instruction lists a row descriptor may carry under "instructions".
InstructionLists ==
    { <<"knit", "knit">>, <<"yo", "knit">>, <<"k2tog">>, <<"knit", "bo">> }

(***************************************************************************)
(* Inputs: row descriptors and connection descriptors.                     *)
(***************************************************************************)
RowValues ==
    [id : Ids, same_as : {{}}, instructions : {{il} : il \in InstructionLists}]
    \cup [id : Ids, same_as : {{i} : i \in Ids}, instructions : {{}}]
    \cup [id : Ids, same_as : {{}}, instructions : {{}}]

Starts == {{}} \cup {{n} : n \in {-1} \cup 1..MaxStart}
MeshCounts == {{}} \cup {{n} : n \in 1..MaxMeshes}
ConnectionEnds == [id : Ids, start : Starts]
Connections == [from : ConnectionEnds, to : ConnectionEnds, meshes : MeshCounts]

TypeValues == {{}, {"knit"}, {KNITTING_PATTERN_TYPE}}

VARIABLES
    pc,                 \* position of the parser inside knitting_pattern_set
    error,              \* the exception the last call raised, "none" if none
    rows,               \* the Row objects created by the current call
    link,               \* Mesh.link of every mesh of every row
    id_cache,           \* Parser._id_cache
    pattern_set,        \* Parser._pattern_set
    inheritance_todos,  \* Parser._inheritance_todos
    instruction_todos,  \* Parser._instruction_todos
    patterns,           \* the pattern collection being filled
    cur,                \* the row collection of the pattern being parsed
    nconn,              \* connection descriptors resolved in this pattern
    layout,             \* the GridLayout built last, if any
    relinked,           \* the last step re-linked an already linked mesh
    dirty               \* the last step entered a call with tasks left pending

vars == <<pc, error, rows, link, id_cache, pattern_set, inheritance_todos,
          instruction_todos, patterns, cur, nconn, layout, relinked, dirty, layout>>

(***************************************************************************)
(* dict.get(key, default) on an option set.                                *)
(***************************************************************************)
DictGet(opt, default) == IF opt = {} THEN default ELSE CHOOSE v \in opt : TRUE

\* Python's seq[start:stop] for 0 <= start <= stop: out-of-range bounds are
\* clamped to the length of the sequence, never an error.
Min(a, b) == IF a <= b THEN a ELSE b
PySlice(seq, start, stop) ==
    LET hi == Min(stop, Len(seq))
    IN  IF start >= hi THEN <<>>
        ELSE [k \in 1..(hi - start) |-> seq[start + k]]

RECURSIVE SumOver(_, _)
SumOver(seq, n) ==
    IF n = 0 THEN 0 ELSE SumOver(seq, n - 1) + seq[n]

(***************************************************************************)
(* Rows, instructions and meshes.                                          *)
(***************************************************************************)
\* Row.get(INSTRUCTIONS, []): the row's own value, else the inherited one.
RECURSIVE RowGetInstructions(_, _, _)
RowGetInstructions(rs, r, depth) ==
    IF rs[r].values # {} THEN DictGet(rs[r].values, <<>>)
    ELSE IF rs[r].parent = {} \/ depth = 0 THEN <<>>
    ELSE RowGetInstructions(rs, DictGet(rs[r].parent, r), depth - 1)

number_of_produced_meshes(rs, r) ==
    LET ins == rs[r].instructions
    IN  SumOver([i \in 1..Len(ins) |-> ProducedOf(ins[i])], Len(ins))

number_of_consumed_meshes(rs, r) ==
    LET ins == rs[r].instructions
    IN  SumOver([i \in 1..Len(ins) |-> ConsumedOf(ins[i])], Len(ins))

\* Row.produced_meshes / Row.consumed_meshes: the concatenation of the
\* instructions' meshes; a mesh is named by its row, side and 0-based index.
produced_meshes(rs, r) ==
    [k \in 1..number_of_produced_meshes(rs, r) |-> <<r, "produced", k - 1>>]

consumed_meshes(rs, r) ==
    [k \in 1..number_of_consumed_meshes(rs, r) |-> <<r, "consumed", k - 1>>]

Range(seq) == {seq[k] : k \in 1..Len(seq)}

AllMeshes(rs) ==
    UNION {Range(produced_meshes(rs, r)) \cup Range(consumed_meshes(rs, r))
           : r \in 1..Len(rs)}

\* Mesh.disconnect: clears the link of the mesh and of its counterpart.
disconnect(l, m) ==
    IF l[m] = NoMesh THEN l
    ELSE [x \in DOMAIN l |-> IF x = m \/ x = l[m] THEN NoMesh ELSE l[x]]

\* connect_to that only writes the two links.
connect_to_overwrite(l, produced_mesh, consumed_mesh) ==
    [x \in DOMAIN l |->
        IF x = produced_mesh THEN consumed_mesh
        ELSE IF x = consumed_mesh THEN produced_mesh
        ELSE l[x]]

\* Mesh.connect_to: both meshes leave their old counterparts, then point at
\* each other.
connect_to(l, produced_mesh, consumed_mesh) ==
    LET l1 == disconnect(disconnect(l, consumed_mesh), produced_mesh)
    IN  [x \in DOMAIN l1 |->
            IF x = produced_mesh THEN consumed_mesh
            ELSE IF x = consumed_mesh THEN produced_mesh
            ELSE l1[x]]

\* for produced_mesh, consumed_mesh in zip(...): produced_mesh.connect_to(...)
RECURSIVE ConnectPairs(_, _, _, _)
ConnectPairs(l, produced, consumed, k) ==
    IF k > Min(Len(produced), Len(consumed)) THEN l
    ELSE ConnectPairs(connect_to(l, produced[k], consumed[k]),
                      produced, consumed, k + 1)

(***************************************************************************)
(* Parser._start                                                           *)
(***************************************************************************)
EmptyDict == [i \in {} |-> 0]
NoLayout ==
    [source |-> "none", rows |-> <<>>, points |-> <<>>,
     box |-> <<0, 0, 0, 0>>, feeds |-> {}, complete |-> TRUE]
NoLinks == [m \in {} |-> NoMesh]

\* _start that forgets to renew the queues and the id cache.
StartStateKeepsQueues(old_cache, old_inheritance, old_instructions, old_set) ==
    [id_cache |-> old_cache,
     pattern_set |-> {},
     inheritance_todos |-> old_inheritance,
     instruction_todos |-> old_instructions]

StartState(old_cache, old_inheritance, old_instructions, old_set) ==
    [id_cache |-> EmptyDict,
     pattern_set |-> {},
     inheritance_todos |-> <<>>,
     instruction_todos |-> <<>>]

Init ==
    /\ pc = "idle"
    /\ error = "none"
    /\ rows = <<>>
    /\ link = NoLinks
    /\ id_cache = EmptyDict
    /\ pattern_set = {}
    /\ inheritance_todos = <<>>
    /\ instruction_todos = <<>>
    /\ patterns = <<>>
    /\ cur = <<>>
    /\ nconn = 0
    /\ layout = NoLayout
    /\ relinked = FALSE
    /\ dirty = FALSE

\* An exception leaves knitting_pattern_set; the parser keeps its fields.
Raise(e) ==
    /\ pc' = "idle"
    /\ error' = e

\* An earlier call left queued tasks and registered ids behind.
PendingTasks ==
    /\ inheritance_todos # <<>> \/ instruction_todos # <<>>
    /\ DOMAIN id_cache # {}

(***************************************************************************)
(* Parser.knitting_pattern_set: entry.                                     *)
(***************************************************************************)
KnittingPatternSet ==
    /\ pc = "idle"
    /\ LET s == StartState(id_cache, inheritance_todos, instruction_todos,
                           pattern_set)
       IN  /\ id_cache' = s.id_cache
           /\ pattern_set' = s.pattern_set
           /\ inheritance_todos' = s.inheritance_todos
           /\ instruction_todos' = s.instruction_todos
    /\ error' = "none"
    /\ rows' = <<>>
    /\ link' = NoLinks
    /\ patterns' = <<>>
    /\ cur' = <<>>
    /\ nconn' = 0
    /\ pc' = "patterns"
    /\ layout' = NoLayout
    /\ relinked' = FALSE
    /\ dirty' = PendingTasks

\* _fill_pattern_collection: the next pattern of the set, Parser._pattern
BeginPattern ==
    /\ pc = "patterns"
    /\ Len(patterns) < MaxPatterns
    /\ cur' = <<>>
    /\ nconn' = 0
    /\ pc' = "rows"
    /\ relinked' = FALSE
    /\ dirty' = FALSE
    /\ UNCHANGED <<error, rows, link, id_cache, pattern_set,
                   inheritance_todos, instruction_todos, patterns, layout>>

(***************************************************************************)
(* Parser._row, called by Parser._rows for every row descriptor.           *)
(***************************************************************************)
Row(values) ==
    /\ pc = "rows"
    /\ Len(rows) < MaxRows
    /\ LET row == Len(rows) + 1
       IN  /\ rows' = Append(rows, [id |-> values.id,
                                    values |-> values.instructions,
                                    parent |-> {},
                                    instructions |-> <<>>])
           /\ inheritance_todos' =
                 IF values.same_as # {}
                 THEN Append(inheritance_todos,
                             <<row, DictGet(values.same_as, 0)>>)
                 ELSE inheritance_todos
           /\ instruction_todos' = Append(instruction_todos, row)
           /\ id_cache' = [i \in DOMAIN id_cache \cup {values.id} |->
                              IF i = values.id THEN row ELSE id_cache[i]]
           /\ cur' = Append(cur, row)
    /\ UNCHANGED <<pc, error, link, pattern_set, patterns, nconn,
                   relinked, dirty, layout>>

\* Parser._rows returns the row collection; _pattern goes on.
EndRows ==
    /\ pc = "rows"
    /\ pc' = "inheritance"
    /\ UNCHANGED <<error, rows, link, id_cache, pattern_set,
                   inheritance_todos, instruction_todos, patterns, cur, nconn,
                   relinked, dirty, layout>>

(***************************************************************************)
(* Parser._finish_inheritance: one iteration of the while loop, and its    *)
(* exit.                                                                   *)
(***************************************************************************)
FinishInheritance ==
    /\ pc = "inheritance"
    /\ inheritance_todos # <<>>
    /\ LET n == Len(inheritance_todos)
           prototype == inheritance_todos[n][1]
           parent_id == inheritance_todos[n][2]
       IN  /\ inheritance_todos' = SubSeq(inheritance_todos, 1, n - 1)
           /\ IF parent_id \notin DOMAIN id_cache
              THEN /\ Raise("KeyError")
                   /\ UNCHANGED rows
              ELSE /\ rows' = [rows EXCEPT
                                 ![prototype].parent = {id_cache[parent_id]}]
                   /\ UNCHANGED <<pc, error>>
    /\ UNCHANGED <<link, id_cache, pattern_set, instruction_todos, patterns,
                   cur, nconn, relinked, dirty, layout>>

InheritanceDone ==
    /\ pc = "inheritance"
    /\ inheritance_todos = <<>>
    /\ pc' = "instructions"
    /\ UNCHANGED <<error, rows, link, id_cache, pattern_set,
                   inheritance_todos, instruction_todos, patterns, cur, nconn,
                   relinked, dirty, layout>>

(***************************************************************************)
(* Parser._finish_instructions: one iteration of the while loop, and its   *)
(* exit.                                                                   *)
(***************************************************************************)
ExtendLinks(l, rs) ==
    [m \in AllMeshes(rs) |-> IF m \in DOMAIN l THEN l[m] ELSE NoMesh]

FinishInstructions ==
    /\ pc = "instructions"
    /\ instruction_todos # <<>>
    /\ LET n == Len(instruction_todos)
           row == instruction_todos[n]
           instructions == RowGetInstructions(rows, row, Len(rows))
           rs == [rows EXCEPT ![row].instructions = @ \o instructions]
       IN  /\ instruction_todos' = SubSeq(instruction_todos, 1, n - 1)
           /\ rows' = rs
           /\ link' = ExtendLinks(link, rs)
    /\ UNCHANGED <<pc, error, id_cache, pattern_set, inheritance_todos,
                   patterns, cur, nconn, relinked, dirty, layout>>

\* _finish_instructions with "if" for "while": it leaves after one task.
InstructionsDoneEarly ==
    /\ pc = "instructions"
    /\ Len(instruction_todos) <= 1
    /\ pc' = "connect"
    /\ UNCHANGED <<error, rows, link, id_cache, pattern_set,
                   inheritance_todos, instruction_todos, patterns, cur, nconn,
                   relinked, dirty, layout>>

InstructionsDone ==
    /\ pc = "instructions"
    /\ instruction_todos = <<>>
    /\ pc' = "connect"
    /\ UNCHANGED <<error, rows, link, id_cache, pattern_set,
                   inheritance_todos, instruction_todos, patterns, cur, nconn,
                   relinked, dirty, layout>>

(***************************************************************************)
(* Parser._connect_rows: the body of the loop for one connection.          *)
(***************************************************************************)
\* number_of_meshes = connection.get(MESHES, min(possible from, possible to))
number_of_meshes(connection, from_possible, to_possible) ==
    DictGet(connection.meshes, Min(from_possible, to_possible))

\* The outcome of one connection: the exception raised ("none" if none) and
\* the mesh links afterwards.
ConnectOne(rs, cache, l, connection) ==
    IF connection.from.id \notin DOMAIN cache THEN
        [error |-> "KeyError", link |-> l]
    ELSE IF connection.to.id \notin DOMAIN cache THEN
        [error |-> "KeyError", link |-> l]
    ELSE
    LET from_row == cache[connection.from.id]
        from_row_start_index == DictGet(connection.from.start, DEFAULT_START)
        from_row_number_of_possible_meshes ==
            number_of_produced_meshes(rs, from_row) - from_row_start_index
        to_row == cache[connection.to.id]
        to_row_start_index == DictGet(connection.to.start, DEFAULT_START)
        to_row_number_of_possible_meshes ==
            number_of_consumed_meshes(rs, to_row) - to_row_start_index
        n == number_of_meshes(connection,
                              from_row_number_of_possible_meshes,
                              to_row_number_of_possible_meshes)
        from_row_stop_index == from_row_start_index + n
        to_row_stop_index == to_row_start_index + n
        produced == PySlice(produced_meshes(rs, from_row),
                            from_row_start_index, from_row_stop_index)
        consumed == PySlice(consumed_meshes(rs, to_row),
                            to_row_start_index, to_row_stop_index)
    IN  IF ~(0 <= from_row_start_index
             /\ from_row_start_index <= from_row_stop_index) THEN
            [error |-> "AssertionError", link |-> l]
        ELSE IF ~(0 <= to_row_start_index
                  /\ to_row_start_index <= to_row_stop_index) THEN
            [error |-> "AssertionError", link |-> l]
        ELSE IF Len(produced) # Len(consumed) THEN
            [error |-> "AssertionError", link |-> l]
        ELSE [error |-> "none", link |-> ConnectPairs(l, produced, consumed, 1)]

\* Some mesh that was linked before is linked to another mesh afterwards.
Relinks(before, after) ==
    \E m \in DOMAIN before :
        before[m] # NoMesh /\ after[m] # NoMesh /\ after[m] # before[m]

ConnectRow(connection) ==
    /\ pc = "connect"
    /\ nconn < MaxConnections
    /\ nconn' = nconn + 1
    /\ LET out == ConnectOne(rows, id_cache, link, connection)
       IN  /\ link' = out.link
           /\ relinked' = Relinks(link, out.link)
           /\ IF out.error # "none"
              THEN Raise(out.error)
              ELSE UNCHANGED <<pc, error>>
    /\ dirty' = FALSE
    /\ UNCHANGED <<rows, id_cache, pattern_set, inheritance_todos,
                   instruction_todos, patterns, cur, layout>>

\* The loop over the connections ends; _pattern returns the new pattern and
\* _fill_pattern_collection appends it.
EndPattern ==
    /\ pc = "connect"
    /\ patterns' = Append(patterns, cur)
    /\ pc' = "patterns"
    /\ relinked' = FALSE
    /\ UNCHANGED <<error, rows, link, id_cache, pattern_set,
                   inheritance_todos, instruction_todos, cur, nconn, dirty,
                   layout>>

(***************************************************************************)
(* Parser._create_pattern_set with Parser._get_type.                       *)
(***************************************************************************)
CreatePatternSet(type) ==
    /\ pc = "patterns"
    /\ IF type # {KNITTING_PATTERN_TYPE}
       THEN /\ Raise("ParsingError")
            /\ UNCHANGED pattern_set
       ELSE /\ pattern_set' = {patterns}
            /\ pc' = "idle"
            /\ UNCHANGED error
    /\ relinked' = FALSE
    /\ dirty' = FALSE
    /\ UNCHANGED <<rows, link, id_cache, inheritance_todos,
                   instruction_todos, patterns, cur, nconn, layout>>

(***************************************************************************)
(* The grid layout of a parsed pattern.                                    *)
(*                                                                         *)
(* A layout holds the rows in walk_rows order (y, number of instructions,  *)
(* position in the pattern when known), the points in walk_instructions    *)
(* order, the bounding box, and the row pairs <<producer, consumer>> known *)
(* to be joined by a mesh link ("complete" when no other pair is).         *)
(***************************************************************************)
SetMax(S) == CHOOSE x \in S : \A y \in S : y <= x
SetMin(S) == CHOOSE x \in S : \A y \in S : x <= y

\* Row q produces a mesh that row r consumes.
Feeds(rs, l, q, r) ==
    \E m \in Range(consumed_meshes(rs, r)) : l[m] # NoMesh /\ l[m][1] = q

ProducerRows(rs, l, R, r) == {q \in R : Feeds(rs, l, q, r)}

\* Row placement that stacks a row directly on its producers' level.
RECURSIVE RowYNoStep(_, _, _, _, _)
RowYNoStep(rs, l, R, r, fuel) ==
    LET P == ProducerRows(rs, l, R, r)
    IN  IF P = {} \/ fuel = 0 THEN 0
        ELSE SetMax({RowYNoStep(rs, l, R, q, fuel - 1) : q \in P})

\* Row placement: 0 for a root, else the largest producer y plus 1.
RECURSIVE RowY(_, _, _, _, _)
RowY(rs, l, R, r, fuel) ==
    LET P == ProducerRows(rs, l, R, r)
    IN  IF P = {} THEN 0
        ELSE IF fuel = 0 THEN 1
        ELSE SetMax({RowY(rs, l, R, q, fuel - 1) : q \in P}) + 1

\* The longest chain of producers above row r, cut off after `fuel` rows.
RECURSIVE ChainAbove(_, _, _, _, _)
ChainAbove(rs, l, R, r, fuel) ==
    LET P == ProducerRows(rs, l, R, r)
    IN  IF P = {} THEN 0
        ELSE IF fuel = 0 THEN 1
        ELSE SetMax({ChainAbove(rs, l, R, q, fuel - 1) : q \in P}) + 1

\* No row feeds itself, directly or through other rows.
Acyclic(rs, l, R) ==
    \A r \in R : ChainAbove(rs, l, R, r, Cardinality(R)) < Cardinality(R)

\* A width taken from the meshes the instruction produces.
WidthOfProduced(type) ==
    IF ProducedOf(type) >= 1 THEN ProducedOf(type) ELSE 0

\* The width of an instruction in the grid: the tests build a point from an
\* instruction that has a color and number_of_consumed_meshes only, and
\* record width 2 for the skp that consumes 2 meshes.
WidthOf(type) == ConsumedOf(type)

\* The 0-based index, among the row's consumed meshes, of the first mesh
\* instruction i consumes.
FirstConsumed(rs, r, i) ==
    LET ins == rs[r].instructions
    IN  SumOver([j \in 1..Len(ins) |-> ConsumedOf(ins[j])], i - 1)

\* The instruction of row q that owns produced mesh k (0-based).
InstructionOfProduced(rs, q, k) ==
    LET ins == rs[q].instructions
        upto(i) == SumOver([j \in 1..Len(ins) |-> ProducedOf(ins[j])], i)
    IN  CHOOSE i \in 1..Len(ins) : upto(i - 1) <= k /\ k < upto(i)

\* The first consumed mesh of instruction i of row r is linked to an
\* instruction of a row of the layout.
FirstIsLinked(rs, l, R, r, i) ==
    LET m == <<r, "consumed", FirstConsumed(rs, r, i)>>
    IN  ConsumedOf(rs[r].instructions[i]) > 0 /\ l[m] # NoMesh /\ l[m][1] \in R

\* "linked", "boundary", "foreign" (linked to a row outside the layout) or
\* "none" (the instruction consumes no mesh).
FirstMeshKind(rs, l, R, r, i) ==
    LET m == <<r, "consumed", FirstConsumed(rs, r, i)>>
    IN  IF ConsumedOf(rs[r].instructions[i]) = 0 THEN "none"
        ELSE IF l[m] = NoMesh THEN "boundary"
        ELSE IF l[m][1] \in R THEN "linked"
        ELSE "foreign"

\* Instruction placement that only packs the row from left to right.
RECURSIVE PointXPacked(_, _, _, _, _)
PointXPacked(rs, l, R, r, i) ==
    IF i = 1 THEN 0
    ELSE PointXPacked(rs, l, R, r, i - 1) + WidthOf(rs[r].instructions[i - 1])

\* Instruction placement inside a row: the x of the producer of the first
\* consumed mesh, else the end of the previous instruction. The leading
\* instructions of a row end where its first linked instruction starts, and
\* start at 0 when no instruction of the row is linked.
RECURSIVE PointX(_, _, _, _, _)
PointX(rs, l, R, r, i) ==
    LET ins == rs[r].instructions
        m(j) == <<r, "consumed", FirstConsumed(rs, r, j)>>
        producerX(j) ==
            PointX(rs, l, R, l[m(j)][1],
                   InstructionOfProduced(rs, l[m(j)][1], l[m(j)][3]))
        anchors == {j \in 2..Len(ins) : FirstIsLinked(rs, l, R, r, j)}
    IN  IF FirstIsLinked(rs, l, R, r, i) THEN producerX(i)
        ELSE IF i > 1
        THEN PointX(rs, l, R, r, i - 1) + WidthOf(ins[i - 1])
        ELSE IF anchors = {} THEN 0
        ELSE producerX(SetMin(anchors))
                - SumOver([j \in 1..Len(ins) |-> WidthOf(ins[j])],
                          SetMin(anchors) - 1)

\* walk_rows that keeps the order of the pattern.
WalkRowsUnsorted(pattern, y) == pattern

\* walk_rows: the rows of the pattern by ascending y, rows of equal y in
\* their order in the pattern. y[k] is the y of pattern[k].
WalkRows(pattern, y) ==
    LET n == Len(pattern)
        before(j, i) == y[j] < y[i] \/ (y[j] = y[i] /\ j < i)
        rank(i) == Cardinality({j \in 1..n : before(j, i)}) + 1
    IN  [k \in 1..n |-> CHOOSE i \in 1..n : rank(i) = k]

\* The points of the rows, row after row.
RECURSIVE Flatten(_, _)
Flatten(seqs, n) ==
    IF n = 0 THEN <<>> ELSE Flatten(seqs, n - 1) \o seqs[n]

\* A bounding box whose right edge forgets the width of the points.
BoundingBoxNoWidth(points, ys) ==
    <<SetMin({points[k].x : k \in 1..Len(points)}),
      SetMin({points[k].y : k \in 1..Len(points)}),
      SetMax({points[k].x : k \in 1..Len(points)}),
      SetMax(ys) + 1>>

\* (min x, min y, max of x + width, max of row y + 1)
BoundingBox(points, ys) ==
    <<SetMin({points[k].x : k \in 1..Len(points)}),
      SetMin({points[k].y : k \in 1..Len(points)}),
      SetMax({points[k].x + points[k].width : k \in 1..Len(points)}),
      SetMax(ys) + 1>>

\* GridLayout(pattern) for the row collection `pattern`.
LayoutOf(rs, l, pattern) ==
    LET n == Len(pattern)
        R == Range(pattern)
        y == [k \in 1..n |-> RowY(rs, l, R, pattern[k], n)]
        order == WalkRows(pattern, y)
        lengths == [w \in 1..n |-> Len(rs[pattern[order[w]]].instructions)]
        walkOf(q) == CHOOSE w \in 1..n : pattern[order[w]] = q
        firstLink(r, i) == l[<<r, "consumed", FirstConsumed(rs, r, i)>>]
        \* the place, among the points, of the instruction of row q that
        \* produces mesh k of the row
        pointOf(q, k) ==
            SumOver(lengths, walkOf(q) - 1) + InstructionOfProduced(rs, q, k)
        walked == [w \in 1..n |->
                     [y |-> y[order[w]],
                      length |-> Len(rs[pattern[order[w]]].instructions),
                      insertion |-> {order[w]}]]
        pointsOf == [w \in 1..n |->
                       LET r == pattern[order[w]]
                       IN  [i \in 1..Len(rs[r].instructions) |->
                              [row |-> w,
                               index |-> i - 1,
                               x |-> PointX(rs, l, R, r, i),
                               y |-> y[order[w]],
                               width |-> WidthOf(rs[r].instructions[i]),
                               height |-> 1,
                               consumed |->
                                   {ConsumedOf(rs[r].instructions[i])},
                               produced |->
                                   {ProducedOf(rs[r].instructions[i])},
                               layout_width |-> {},
                               first |-> FirstMeshKind(rs, l, R, r, i),
                               producer |->
                                   IF FirstIsLinked(rs, l, R, r, i)
                                   THEN {pointOf(firstLink(r, i)[1],
                                                 firstLink(r, i)[3])}
                                   ELSE {}]]]
        points == Flatten(pointsOf, n)
    IN  [source |-> "engine",
         rows |-> walked,
         points |-> points,
         box |-> BoundingBox(points, {walked[w].y : w \in 1..n}),
         feeds |-> {<<p, c>> \in (1..n) \X (1..n) :
                      Feeds(rs, l, pattern[order[p]], pattern[order[c]])},
         complete |-> TRUE]

GridLayout(p) ==
    /\ pc = "idle"
    /\ pattern_set # {}
    /\ p \in 1..Len(patterns)
    /\ Acyclic(rows, link, Range(patterns[p]))
    /\ \E r \in Range(patterns[p]) : rows[r].instructions # <<>>
    /\ layout' = LayoutOf(rows, link, patterns[p])
    /\ UNCHANGED <<pc, error, rows, link, id_cache, pattern_set,
                   inheritance_todos, instruction_todos, patterns, cur, nconn,
                   relinked, dirty>>

(***************************************************************************)
(* The layouts the tests of the layout record for the test patterns.       *)
(***************************************************************************)
\* range(lo, hi) as x coordinates at one y
XRange(lo, hi, y) == [k \in 1..(hi - lo) |-> <<lo + k - 1, y>>]
Repeat(v, n) == [k \in 1..n |-> v]

RowOfPoint(lens, k) ==
    CHOOSE w \in 1..Len(lens) :
        SumOver(lens, w - 1) < k /\ k <= SumOver(lens, w)

\* What a test tells about the instruction of a point: its mesh counts, its
\* layout specific width, and the instruction producing its first consumed
\* mesh ("unknown" when the test does not tell).
NoAttributes ==
    [consumed |-> {}, produced |-> {}, layout_width |-> {},
     first |-> "unknown", producer |-> {}]
Known(known, k) == IF k \in DOMAIN known THEN known[k] ELSE NoAttributes

\* An instruction consuming and producing one mesh, its consumed mesh
\* produced by the instruction of point p.
ProducedBy(p) ==
    [consumed |-> {1}, produced |-> {1}, layout_width |-> {},
     first |-> "linked", producer |-> {p}]
\* The same with producing_instructions == [None].
NotProduced ==
    [consumed |-> {1}, produced |-> {1}, layout_width |-> {},
     first |-> "boundary", producer |-> {}]

\* The layout of a test: COORDINATES, SIZES and BOUNDING_BOX, the number of
\* instructions of the rows in ROW_IDS order, the known row links and what
\* is known of the instructions.
RecordedLayout(coordinates, sizes, lens, box, feeds, complete, known) ==
    [source |-> "test",
     rows |-> [w \in 1..Len(lens) |->
                 [y |-> coordinates[SumOver(lens, w - 1) + 1][2],
                  length |-> lens[w],
                  insertion |-> {}]],
     points |-> [k \in 1..Len(coordinates) |->
                   [row |-> RowOfPoint(lens, k),
                    index |-> k - 1 - SumOver(lens, RowOfPoint(lens, k) - 1),
                    x |-> coordinates[k][1],
                    y |-> coordinates[k][2],
                    width |-> sizes[k][1],
                    height |-> sizes[k][2],
                    consumed |-> Known(known, k).consumed,
                    produced |-> Known(known, k).produced,
                    layout_width |-> Known(known, k).layout_width,
                    first |-> Known(known, k).first,
                    producer |-> Known(known, k).producer]],
     box |-> box,
     feeds |-> feeds,
     complete |-> complete]

Block4x4 ==
    RecordedLayout(
        XRange(0, 4, 0) \o XRange(0, 4, 1) \o XRange(0, 4, 2) \o XRange(0, 4, 3),
        Repeat(<<1, 1>>, 16),
        <<4, 4, 4, 4>>,
        <<0, 0, 4, 4>>, {}, FALSE, <<>>)

Hole ==
    RecordedLayout(
        XRange(0, 4, 0) \o <<<<0, 1>>, <<1, 1>>, <<3, 1>>, <<3, 1>>>>
            \o XRange(0, 4, 2) \o XRange(0, 4, 3),
        Repeat(<<1, 1>>, 5) \o <<<<2, 1>>, <<0, 1>>>> \o Repeat(<<1, 1>>, 9),
        <<4, 4, 4, 4>>,
        <<0, 0, 4, 4>>, {}, FALSE, <<>>)

\* i1 is points 1..4, i2 points 5..9, i3 points 10..12, i4 points 13..17.
AddAndRemoveMeshesInstructions ==
    [k \in 1..17 |->
        IF k \in 5..8 THEN ProducedBy(k - 4)
        ELSE IF k \in 10..12 THEN ProducedBy(k - 5)
        ELSE IF k \in 14..16 THEN ProducedBy(k - 4)
        ELSE NotProduced]

AddAndRemoveMeshes ==
    RecordedLayout(
        XRange(0, 4, 0) \o XRange(0, 5, 1) \o XRange(0, 3, 2) \o XRange(-1, 4, 3),
        Repeat(<<1, 1>>, 17),
        <<4, 5, 3, 5>>,
        <<-1, 0, 5, 4>>, {<<1, 2>>, <<2, 3>>, <<3, 4>>}, TRUE,
        AddAndRemoveMeshesInstructions)

ParallelRows ==
    RecordedLayout(
        XRange(0, 5, 0) \o XRange(3, 5, 1) \o XRange(0, 2, 2) \o XRange(3, 5, 2)
            \o <<<<0, 3>>, <<1, 3>>, <<2, 3>>, <<4, 3>>>>,
        Repeat(<<1, 1>>, 13) \o <<<<2, 1>>, <<1, 1>>>>,
        <<5, 2, 2, 2, 4>>,
        <<0, 0, 5, 4>>, {<<1, 3>>}, FALSE,
        \* the skp, instruction 2 of row "4.1", consumes 2 meshes
        14 :> [NoAttributes EXCEPT !.consumed = {2}])

SmallCafe ==
    RecordedLayout(
        XRange(0, 12, -1)
            \o <<<<0, 0>>, <<0, 0>>, <<1, 0>>>> \o XRange(1, 12, 0)
            \o XRange(-1, 13, 1)
            \o <<<<-1, 2>>, <<0, 2>>, <<1, 2>>, <<2, 2>>>> \o XRange(2, 13, 2)
            \o <<<<13, 2>>>>
            \o XRange(-2, 14, 3),
        Repeat(<<1, 1>>, 12)
            \o <<<<0, 1>>, <<1, 1>>, <<0, 1>>>> \o Repeat(<<1, 1>>, 11)
            \o Repeat(<<1, 1>>, 14)
            \o Repeat(<<1, 1>>, 3) \o <<<<0, 1>>>> \o Repeat(<<1, 1>>, 11)
            \o <<<<0, 1>>>>
            \o Repeat(<<1, 1>>, 16),
        <<12, 14, 14, 16, 16>>,
        <<-2, -1, 15, 4>>, {}, FALSE, <<>>)

CastOffAndBindOn ==
    RecordedLayout(
        XRange(0, 4, 0) \o XRange(0, 4, 1) \o XRange(0, 4, 2),
        Repeat(<<1, 1>>, 12),
        <<4, 4, 4>>,
        <<0, 0, 4, 3>>, {}, FALSE,
        \* co, instruction 0 of row 1: co["grid-layout"]["width"] == 1
        1 :> [NoAttributes EXCEPT !.layout_width = {1}])

RecordedLayouts ==
    {Block4x4, Hole, AddAndRemoveMeshes, ParallelRows, SmallCafe,
     CastOffAndBindOn}

\* GridLayout(pattern) on a pattern of the test patterns.
TestLayout(recorded) ==
    /\ pc = "idle"
    /\ pattern_set = {}
    /\ rows = <<>>
    /\ layout' = recorded
    /\ UNCHANGED <<pc, error, rows, link, id_cache, pattern_set,
                   inheritance_todos, instruction_todos, patterns, cur, nconn,
                   relinked, dirty>>

Next ==
    \/ KnittingPatternSet
    \/ BeginPattern
    \/ \E values \in RowValues : Row(values)
    \/ EndRows
    \/ FinishInheritance
    \/ InheritanceDone
    \/ FinishInstructions
    \/ InstructionsDone
    \/ \E connection \in Connections : ConnectRow(connection)
    \/ EndPattern
    \/ \E type \in TypeValues : CreatePatternSet(type)
    \/ \E p \in 1..MaxPatterns : GridLayout(p)
    \/ \E recorded \in RecordedLayouts : TestLayout(recorded)

Spec == Init /\ [][Next]_vars

(***************************************************************************)
(* The claims.                                                             *)
(***************************************************************************)
Linked(l) == {m \in DOMAIN l : l[m] # NoMesh}

FromStart(connection) == DictGet(connection.from.start, 0)
ToStart(connection) == DictGet(connection.to.start, 0)
Count(connection) ==
    DictGet(connection.meshes,
            Min(number_of_produced_meshes(rows, id_cache[connection.from.id])
                    - FromStart(connection),
                number_of_consumed_meshes(rows, id_cache[connection.to.id])
                    - ToStart(connection)))
DescribedPairs(connection) ==
    {<< <<id_cache[connection.from.id], "produced",
          FromStart(connection) + k>>,
        <<id_cache[connection.to.id], "consumed",
          ToStart(connection) + k>> >> : k \in 0..(Count(connection) - 1)}
KnownIds(connection) ==
    connection.from.id \in DOMAIN id_cache /\ connection.to.id \in DOMAIN id_cache
InRange(connection) ==
    /\ 0 <= FromStart(connection)
    /\ FromStart(connection) <= FromStart(connection) + Count(connection)
    /\ FromStart(connection) + Count(connection)
          <= number_of_produced_meshes(rows, id_cache[connection.from.id])
    /\ 0 <= ToStart(connection)
    /\ ToStart(connection) <= ToStart(connection) + Count(connection)
    /\ ToStart(connection) + Count(connection)
          <= number_of_consumed_meshes(rows, id_cache[connection.to.id])
Accepted == pc' = "connect" /\ error' = "none"
Rejected == pc' = "idle" /\ error' # "none" /\ link' = link

\* C2: every accepted connection links exactly the pairs
\* (produced[from_start + k], consumed[to_start + k]), 0 <= k < count, and
\* no other pair.
C2_LinksExactlyTheDescribedPairs ==
    [][\A connection \in Connections :
          (ConnectRow(connection) /\ Accepted) =>
             /\ \A pair \in DescribedPairs(connection) :
                   /\ pair[1] \in DOMAIN link' /\ pair[2] \in DOMAIN link'
                   /\ link'[pair[1]] = pair[2]
                   /\ link'[pair[2]] = pair[1]
             /\ \A m \in DOMAIN link' :
                   (link'[m] # NoMesh /\ link'[m] # link[m]) =>
                      \/ <<m, link'[m]>> \in DescribedPairs(connection)
                      \/ <<link'[m], m>> \in DescribedPairs(connection)]_vars

\* C3: a connection whose start and count leave the mesh sequence of the
\* from row or of the to row is rejected with an error and links nothing.
C3_OutOfRangeIsRejected ==
    [][\A connection \in Connections :
          (ConnectRow(connection) /\ KnownIds(connection)
             /\ ~InRange(connection)) => Rejected]_vars

\* The ids of the rows of the pattern being parsed.
IdsOfPattern == {rows[r].id : r \in Range(cur)}

\* C4: a connection naming a row id that is no id of a row of the same
\* pattern aborts the parse with an error and links no meshes.
C4_ForeignRowIdIsRejected ==
    [][\A connection \in Connections :
          (ConnectRow(connection)
             /\ (connection.from.id \notin IdsOfPattern
                 \/ connection.to.id \notin IdsOfPattern)) => Rejected]_vars

\* C5: while the connections of a pattern are resolved, both queues are
\* empty and every row of the pattern holds its instructions; no task of
\* either queue runs once the resolution has started.
C5_QueuesDrainedBeforeConnecting ==
    pc = "connect" =>
        /\ inheritance_todos = <<>>
        /\ instruction_todos = <<>>
        /\ \A r \in Range(cur) :
              rows[r].instructions = RowGetInstructions(rows, r, Len(rows))

\* C5 witness: connections are resolved in a later pattern of the set whose
\* rows got instructions, one of them by inheritance.
C5_Witness ==
    /\ pc = "connect"
    /\ nconn > 0
    /\ Len(patterns) > 0
    /\ Len(cur) > 1
    /\ \E r \in Range(cur) : rows[r].parent # {} /\ rows[r].instructions # <<>>

\* C6: every call starts with an empty id cache, empty queues and no
\* pattern set, and nothing the parser holds refers to an earlier call.
C6_FreshStateForEveryCall ==
    /\ (pc = "patterns" /\ patterns = <<>>) =>
          /\ DOMAIN id_cache = {}
          /\ inheritance_todos = <<>>
          /\ instruction_todos = <<>>
          /\ pattern_set = {}
    /\ \A i \in DOMAIN id_cache :
          id_cache[i] \in 1..Len(rows) /\ rows[id_cache[i]].id = i
    /\ \A k \in 1..Len(instruction_todos) :
          instruction_todos[k] \in 1..Len(rows)
    /\ \A k \in 1..Len(inheritance_todos) :
          inheritance_todos[k][1] \in 1..Len(rows)

\* C6 witness: a call has just started on a parser whose previous call
\* raised an error while queued tasks were pending.
C6_Witness ==
    /\ dirty
    /\ pc = "patterns"
    /\ patterns = <<>>

(***************************************************************************)
(* Claims about the grid layout.                                           *)
(***************************************************************************)
HasLayout == layout.source # "none"
PointIndices == 1..Len(layout.points)
RowIndices == 1..Len(layout.rows)

C8_BoundingBoxContainsPoints ==
    HasLayout =>
        \A k \in PointIndices :
            /\ layout.box[1] <= layout.points[k].x
            /\ layout.points[k].x + layout.points[k].width <= layout.box[3]
            /\ layout.box[2] <= layout.points[k].y
            /\ layout.points[k].y + layout.points[k].height <= layout.box[4]

\* C8 witness: a layout with a point of negative x, a point of negative y
\* and a point of width 0.
C8_Witness ==
    /\ HasLayout
    /\ \E k \in PointIndices : layout.points[k].x < 0
    /\ \E k \in PointIndices : layout.points[k].y < 0
    /\ \E k \in PointIndices : layout.points[k].width = 0

\* C9: the bounding box is exactly (min x, min y, max of x + width,
\* max of row y + 1): it is tight on all four sides.
C9_BoundingBoxIsTight ==
    HasLayout =>
        layout.box = BoundingBox(layout.points,
                                 {layout.rows[w].y : w \in RowIndices})

\* The rows known to feed row c.
KnownProducers(c) == {p \in RowIndices : <<p, c>> \in layout.feeds}

ProducedWidth(n) == IF n >= 1 THEN n ELSE 0

IsRootRow(w) == layout.complete /\ KnownProducers(w) = {}

C13_RowIdsUniqueAndRegistered ==
    pc = "connect" =>
        /\ \A r1, r2 \in Range(cur) : rows[r1].id = rows[r2].id => r1 = r2
        /\ \A r \in Range(cur) :
              rows[r].id \in DOMAIN id_cache /\ id_cache[rows[r].id] = r
        /\ \A i \in DOMAIN id_cache : id_cache[i] \in Range(cur)

====
